---- MODULE Spec2Model ----
(***************************************************************************)
(* A model of container/config.py: the host-side loader                    *)
(* (BaseAnsibleContainerConfig) and the conductor-side processor           *)
(* (AnsibleContainerConductorConfig).                                      *)
(*                                                                         *)
(* YAML/Python values are tagged records; a text is a sequence of tokens   *)
(* (a token is an indivisible piece of text such as "$PWD", "/", ":",      *)
(* "data" or the template reference "{{x}}"), so that splitting,           *)
(* expansion, substitution, templating and serialisation are computed on   *)
(* the text the way the code computes them.                                *)
(***************************************************************************)
EXTENDS Integers, Sequences, FiniteSets, TLC

(***************************************************************************)
(* Values                                                                  *)
(***************************************************************************)
None == [type |-> "none"]
Str(toks) == [type |-> "str", toks |-> toks]
S(tok) == Str(<<tok>>)
Num(n) == [type |-> "int", n |-> n]
List(items) == [type |-> "list", items |-> items]
Ref(r) == [type |-> "ref", ref |-> r]
\* yaml.compat.ordereddict(): the keys in insertion order, and their values
EmptyMap == [type |-> "map", order |-> <<>>, val |-> <<>>]

IsMap(v) == v.type = "map"
IsStr(v) == v.type = "str"
IsList(v) == v.type = "list"

\* Python truthiness (bool(v))
Truthy(v) ==
    CASE v.type = "none" -> FALSE
      [] v.type = "str" -> v.toks # <<>>
      [] v.type = "int" -> v.n # 0
      [] v.type = "list" -> v.items # <<>>
      [] v.type = "map" -> v.order # <<>>
      [] OTHER -> TRUE

Range(s) == {s[i] : i \in DOMAIN s}

Has(d, k) == k \in DOMAIN d.val
\* d.get(k, default)
GetD(d, k, default) == IF Has(d, k) THEN d.val[k] ELSE default
\* d.get(k)
Get(d, k) == GetD(d, k, None)
\* d[k] = v: a new key goes last, an existing key keeps its place
Put(d, k, v) ==
    [type |-> "map",
     order |-> IF Has(d, k) THEN d.order ELSE Append(d.order, k),
     val |-> (k :> v) @@ d.val]
\* del d[k]
Del(d, k) ==
    [type |-> "map",
     order |-> SelectSeq(d.order, LAMBDA x : x # k),
     val |-> [x \in DOMAIN d.val \ {k} |-> d.val[x]]]

RECURSIVE UpdateFrom(_, _, _)
UpdateFrom(d, e, i) ==
    IF i > Len(e.order) THEN d
    ELSE UpdateFrom(Put(d, e.order[i], e.val[e.order[i]]), e, i + 1)
\* d.update(e): e's items in e's order
Update(d, e) == UpdateFrom(d, e, 1)

\* a literal mapping from a sequence of <<key, value>> pairs
RECURSIVE MapFrom(_, _)
MapFrom(pairs, i) ==
    IF i = 0 THEN EmptyMap ELSE Put(MapFrom(pairs, i - 1), pairs[i][1], pairs[i][2])
MapOf(pairs) == MapFrom(pairs, Len(pairs))

(***************************************************************************)
(* Texts                                                                   *)
(***************************************************************************)
RECURSIVE Flatten(_)
Flatten(ss) == IF ss = <<>> THEN <<>> ELSE Head(ss) \o Flatten(Tail(ss))

\* the index of the first token equal to sep at or after i, else 0
RECURSIVE FindTok(_, _, _)
FindTok(toks, sep, i) ==
    IF i > Len(toks) THEN 0
    ELSE IF toks[i] = sep THEN i ELSE FindTok(toks, sep, i + 1)

\* str.split(sep): the pieces between the separators (always at least one)
RECURSIVE Split(_, _)
Split(toks, sep) ==
    LET j == FindTok(toks, sep, 1) IN
    IF j = 0 THEN <<toks>>
    ELSE <<SubSeq(toks, 1, j - 1)>> \o Split(SubSeq(toks, j + 1, Len(toks)), sep)

\* sep.join(pieces)
RECURSIVE Join(_, _)
Join(pieces, sep) ==
    IF pieces = <<>> THEN <<>>
    ELSE IF Len(pieces) = 1 THEN pieces[1]
    ELSE pieces[1] \o <<sep>> \o Join(Tail(pieces), sep)

(***************************************************************************)
(* posixpath, on texts whose "/" and ":" are tokens of their own           *)
(***************************************************************************)
\* the process environment (os.environ) and the password database entry of
\* the user, read by expanduser and expandvars
PwDir == <<"/", "root">>

\* expanduser(path): a leading "~" followed by "/" or by nothing becomes
\* $HOME, or the password database's directory when HOME is not set
expanduser(path, environ) ==
    IF path = <<>> \/ path[1] # "~" THEN path
    ELSE IF Len(path) > 1 /\ path[2] # "/" THEN path
    ELSE LET userhome == IF "HOME" \in DOMAIN environ THEN environ["HOME"] ELSE PwDir
             res == userhome \o Tail(path)
         IN IF res = <<>> THEN <<"/">> ELSE res

\* the variable a "$NAME" or "${NAME}" token names
VarTokName == ("$PWD" :> "PWD") @@ ("${PWD}" :> "PWD") @@ ("$HOME" :> "HOME")
    @@ ("${HOME}" :> "HOME") @@ ("$DATA" :> "DATA")

\* expandvars(path): each reference to a variable the environment defines is
\* replaced by its value; the others are left as written
RECURSIVE expandvars(_, _)
expandvars(path, environ) ==
    IF path = <<>> THEN <<>>
    ELSE LET t == Head(path)
             rest == expandvars(Tail(path), environ)
         IN IF t \in DOMAIN VarTokName /\ VarTokName[t] \in DOMAIN environ
            THEN environ[VarTokName[t]] \o rest
            ELSE <<t>> \o rest

RECURSIVE NormComps(_, _, _, _)
NormComps(comps, i, new, initial_slashes) ==
    IF i > Len(comps) THEN new
    ELSE LET comp == comps[i] IN
         IF comp = <<>> \/ comp = <<".">>
         THEN NormComps(comps, i + 1, new, initial_slashes)
         ELSE IF comp # <<"..">>
                 \/ (initial_slashes = 0 /\ new = <<>>)
                 \/ (new # <<>> /\ new[Len(new)] = <<"..">>)
         THEN NormComps(comps, i + 1, Append(new, comp), initial_slashes)
         ELSE IF new # <<>>
         THEN NormComps(comps, i + 1, SubSeq(new, 1, Len(new) - 1), initial_slashes)
         ELSE NormComps(comps, i + 1, new, initial_slashes)

\* normpath(path)
normpath(path) ==
    IF path = <<>> THEN <<".">>
    ELSE LET initial_slashes ==
                 IF path[1] # "/" THEN 0
                 ELSE IF Len(path) >= 2 /\ path[2] = "/"
                         /\ ~(Len(path) >= 3 /\ path[3] = "/")
                 THEN 2 ELSE 1
             new == NormComps(Split(path, "/"), 1, <<>>, initial_slashes)
             lead == IF initial_slashes = 2 THEN <<"/", "/">>
                     ELSE IF initial_slashes = 1 THEN <<"/">> ELSE <<>>
             res == lead \o Join(new, "/")
         IN IF res = <<>> THEN <<".">> ELSE res

(***************************************************************************)
(* BaseAnsibleContainerConfig: the host-side loader                        *)
(***************************************************************************)
\* the outcome of a call: the exception it raised ("none": it returned) and
\* what it returned or left behind
Ok(v) == [exc |-> "none", v |-> v]
Raise(e) == [exc |-> e, v |-> None]

engine_list == {"docker", "openshift", "k8s"}

TOP_LEVEL_WHITELIST ==
    {"version", "settings", "volumes", "services", "defaults", "registries", "secrets"}
SUPPORTED_COMPOSE_VERSIONS == {S("1"), S("2")}
REQUIRED_TOP_LEVEL_KEYS == <<"services">>

RECURSIVE ValidateTopLevel(_, _)
ValidateTopLevel(config, i) ==
    IF i > Len(config.order) THEN Ok(config)
    ELSE LET top_level == config.order[i] IN
         IF top_level \notin TOP_LEVEL_WHITELIST THEN Raise("ConfigError")
         ELSE IF top_level = "version"
         THEN IF config.val["version"] \notin SUPPORTED_COMPOSE_VERSIONS
              THEN Raise("ConfigError")
              ELSE ValidateTopLevel(config, i + 1)
         ELSE IF config.val[top_level] = None
         THEN ValidateTopLevel(Put(config, top_level, EmptyMap), i + 1)
         ELSE ValidateTopLevel(config, i + 1)

\* a faulty _validate_config: the loop over the top-level keys is left out
ValidateRequiredOnly(config) ==
    IF \E i \in DOMAIN REQUIRED_TOP_LEVEL_KEYS :
           Get(config, REQUIRED_TOP_LEVEL_KEYS[i]) = None
    THEN Raise("ConfigError")
    ELSE Ok(config)

\* _validate_config(config): raises, or normalises the null sections in place
_validate_config(config) ==
    IF \E i \in DOMAIN REQUIRED_TOP_LEVEL_KEYS :
           Get(config, REQUIRED_TOP_LEVEL_KEYS[i]) = None
    THEN Raise("ConfigError")
    ELSE ValidateTopLevel(config, 1)

\* one volume of set_env's loop: the part before the first ":" is expanded
\* and normalised
ExpandVolume(volume, environ) ==
    LET vol_pieces == Split(volume.toks, ":")
        src == normpath(expandvars(expanduser(vol_pieces[1], environ), environ))
    IN Str(Join(<<src>> \o Tail(vol_pieces), ":"))

RECURSIVE DelEngines(_, _)
DelEngines(service_config, engines) ==
    IF engines = {} THEN service_config
    ELSE LET e == CHOOSE x \in engines : TRUE IN
         DelEngines(IF Has(service_config, e) THEN Del(service_config, e)
                    ELSE service_config, engines \ {e})

\* `if env == 'dev': service_config.update(dev_overrides)`
ApplyDevOverrides(service_config, dev_overrides, env) ==
    IF env = "dev" THEN Update(service_config, dev_overrides) ELSE service_config

\* the loop over service_config['volumes'] and the assignment after it
ExpandVolumes(service_config, environ) ==
    IF Has(service_config, "volumes")
    THEN Put(service_config, "volumes",
             List([i \in DOMAIN service_config.val["volumes"].items |->
                   ExpandVolume(service_config.val["volumes"].items[i], environ)]))
    ELSE service_config

\* the volumes can be looped over and split: a list of texts
VolumesAreTexts(service_config) ==
    /\ IsList(service_config.val["volumes"])
    /\ \A i \in DOMAIN service_config.val["volumes"].items :
           IsStr(service_config.val["volumes"].items[i])

\* the rest of the loop's body, from `if 'volumes' in service_config`
LoadVolumesAndEngines(service_config, remove_engines, environ) ==
    IF Has(service_config, "volumes") /\ ~VolumesAreTexts(service_config)
    THEN Raise("TypeError")
    ELSE Ok(DelEngines(ExpandVolumes(service_config, environ), remove_engines))

\* the body of set_env's loop over the services, for one service
LoadService(service_config, env, remove_engines, environ) ==
    IF ~Truthy(service_config) \/ IsStr(service_config) THEN Raise("ConfigError")
    ELSE IF ~IsMap(service_config)
    THEN \* a list: `in` looks among its items, and a hit is then used as a key
         IF IsList(service_config)
            /\ \A k \in {"volumes"} \cup remove_engines : S(k) \notin Range(service_config.items)
         THEN Ok(service_config)
         ELSE Raise("TypeError")
    ELSE IF env = "dev" /\ ~IsMap(GetD(service_config, "dev_overrides", EmptyMap))
    THEN Raise("TypeError")
    ELSE LoadVolumesAndEngines(
             ApplyDevOverrides(Del(service_config, "dev_overrides"),
                               GetD(service_config, "dev_overrides", EmptyMap), env),
             remove_engines, environ)

RECURSIVE LoadServices(_, _, _, _, _)
\* the loop's step once the body has run for service i
LoadServicesNext(services, i, r, env, remove_engines, environ) ==
    IF r.exc # "none" THEN r
    ELSE LoadServices(Put(services, services.order[i], r.v), i + 1, env,
                      remove_engines, environ)
LoadServices(services, i, env, remove_engines, environ) ==
    IF i > Len(services.order) THEN Ok(services)
    ELSE LoadServicesNext(services, i,
                          LoadService(services.val[services.order[i]], env,
                                      remove_engines, environ),
                          env, remove_engines, environ)

\* the variable files on disk, as parsed: a file that is not here does not
\* exist, and "broken.yml" exists and does not parse
VarFileStore ==
    ("vars1.yml" :> MapOf(<< <<"a", Num(2)>>, <<"b", Num(2)>> >>))
    @@ ("vars2.json" :> MapOf(<< <<"b", S("four")>>, <<"d", Str(<<"{{a}}", "-d">>)>> >>))
    @@ ("broken.yml" :> [type |-> "unparsable"])

\* _get_variables_from_file(var_file)
_get_variables_from_file(var_file) ==
    LET name == var_file.toks[1] IN
    IF name \notin DOMAIN VarFileStore THEN Raise("ConfigError")
    ELSE IF ~IsMap(VarFileStore[name]) THEN Raise("ConfigError")
    ELSE Ok(VarFileStore[name])

\* k.startswith('AC_'), and var[3:].lower(), on the names an environment of
\* the model can hold
StartsWithAC(k) == k \in {"AC_A", "AC_a", "AC_B", "AC_Debug"}
StripLower == ("AC_A" :> "a") @@ ("AC_a" :> "a") @@ ("AC_B" :> "b")
    @@ ("AC_Debug" :> "debug")

\* _get_environment_variables(), os.environ.items() yielding the names in
\* the order `items`
RECURSIVE _get_environment_variables(_, _)
_get_environment_variables(environ, items) ==
    IF items = <<>> THEN EmptyMap
    ELSE LET n == Len(items)
             var == items[n]
             env_vars == _get_environment_variables(environ, SubSeq(items, 1, n - 1))
         IN IF StartsWithAC(var)
            THEN Put(env_vars, StripLower[var], Str(environ[var]))
            ELSE env_vars

RECURSIVE UpdateFromVarFiles(_, _, _)
UpdateFromVarFiles(defaults, vars_files, i) ==
    IF i > Len(vars_files) THEN Ok(defaults)
    ELSE IF _get_variables_from_file(vars_files[i]).exc # "none"
    THEN _get_variables_from_file(vars_files[i])
    ELSE UpdateFromVarFiles(Update(defaults, _get_variables_from_file(vars_files[i]).v),
                            vars_files, i + 1)

\* the first lines of _resolve_defaults: config['defaults'] becomes an
\* ordereddict of its own, an absent one an empty one
OwnDefaults(config) ==
    IF Truthy(Get(config, "defaults"))
    THEN Put(config, "defaults", Update(EmptyMap, config.val["defaults"]))
    ELSE IF Has(config, "defaults") THEN config
    ELSE Put(config, "defaults", EmptyMap)

\* `self.cli_vars_files or config.get('settings', {}).get('vars_files')`
EffectiveVarsFiles(config, cli_vars_files) ==
    IF Truthy(cli_vars_files) THEN cli_vars_files
    ELSE Get(GetD(config, "settings", EmptyMap), "vars_files")

\* the update from the variable files, in the order of the list
MergeVarFiles(defaults, vars_files) ==
    IF Truthy(vars_files) THEN UpdateFromVarFiles(defaults, vars_files.items, 1)
    ELSE Ok(defaults)

\* a faulty last update: the environment goes under the files' values
MergeEnvironmentFirst(config, fromFiles, env_vars) ==
    IF fromFiles.exc # "none" THEN fromFiles
    ELSE Ok(Put(config, "defaults", Update(env_vars, fromFiles.v)))

\* the last update of _resolve_defaults, from the environment
MergeEnvironment(config, fromFiles, env_vars) ==
    IF fromFiles.exc # "none" THEN fromFiles
    ELSE Ok(Put(config, "defaults", Update(fromFiles.v, env_vars)))

LayerDefaults(config, cli_vars_files, environ, items) ==
    MergeEnvironment(config,
                     MergeVarFiles(config.val["defaults"],
                                   EffectiveVarsFiles(config, cli_vars_files)),
                     _get_environment_variables(environ, items))

\* _resolve_defaults(config)
_resolve_defaults(config, cli_vars_files, environ, items) ==
    LayerDefaults(OwnDefaults(config), cli_vars_files, environ, items)

\* a faulty load: the config held from the call before is processed again
LoadedDocumentCached(self, container_yml) ==
    IF Truthy(self._config) THEN self._config ELSE container_yml

\* yaml.round_trip_load(open(self.config_path)) in set_env: the file is read
\* anew at every call
LoadedDocument(self, container_yml) == container_yml

\* `config.get('services') or {}`
ServicesOf(config) ==
    IF Truthy(Get(config, "services")) THEN config.val["services"] ELSE EmptyMap

\* a faulty injection: a pwd the document gives is kept
InjectPwdKeep(config, base_path) ==
    IF IsMap(Get(config, "settings")) /\ Has(config.val["settings"], "pwd") THEN config
    ELSE Put(config, "settings",
             Put(IF Get(config, "settings") = None THEN EmptyMap ELSE config.val["settings"],
                 "pwd", Str(base_path)))

\* the lines of set_env that put settings['pwd'] = base_path
InjectPwd(config, base_path) ==
    Put(config, "settings",
        Put(IF Get(config, "settings") = None THEN EmptyMap ELSE config.val["settings"],
            "pwd", Str(base_path)))

\* set_env from the loop over the services on: `loaded` is what the loop
\* left of the services, or what it raised
SetEnvLoaded(self, config, loaded, environ, items) ==
    IF loaded.exc # "none" THEN loaded
    ELSE _resolve_defaults(
             InjectPwd(IF Truthy(Get(config, "services"))
                       THEN Put(config, "services", loaded.v) ELSE config,
                       self.base_path),
             self.cli_vars_files, environ, items)

\* set_env from self._validate_config(config) on
SetEnvValidated(self, env, valid, environ, items) ==
    IF valid.exc # "none" THEN valid
    ELSE SetEnvLoaded(self, valid.v,
                      LoadServices(ServicesOf(valid.v), 1, env, self.remove_engines, environ),
                      environ, items)

\* set_env(env) on the loader `self`, reading the file `container_yml` and
\* the environment: what it raises, or the config it stores to self._config
set_env(self, env, container_yml, environ, items) ==
    IF env \notin {"dev", "prod"} THEN Raise("AssertionError")
    ELSE IF container_yml.type = "absent" THEN Raise("NotInitialized")
    ELSE IF container_yml.type = "unparsable" THEN Raise("ConfigError")
    ELSE SetEnvValidated(self, env, _validate_config(LoadedDocument(self, container_yml)),
                         environ, items)

\* os.path.basename(path)
RECURSIVE basename(_)
basename(path) ==
    LET j == FindTok(path, "/", 1) IN
    IF j = 0 THEN path ELSE basename(SubSeq(path, j + 1, Len(path)))

\* self.<name>: an attribute the object (or its class) does not have raises
Attr(self, name) ==
    IF name \in DOMAIN self THEN Ok(self[name]) ELSE Raise("AttributeError")

Settings(self) == GetD(self._config, "settings", EmptyMap)

\* the property project_name
project_name(self) ==
    IF Truthy(self.cli_project_name) THEN Ok(self.cli_project_name)
    ELSE IF Truthy(GetD(Settings(self), "project_name", None))
    THEN Ok(self._config.val["settings"].val["project_name"])
    ELSE Ok(Str(basename(self.base_path)))

DEFAULT_CONDUCTOR_BASE == Str(<<"centos", ":", "7">>)

\* the property conductor_base
conductor_base(self) ==
    IF Truthy(Get(Settings(self), "conductor_base"))
    THEN Ok(self._config.val["settings"].val["conductor_base"])
    ELSE IF Truthy(Get(GetD(Settings(self), "conductor", EmptyMap), "base"))
    THEN Ok(self._config.val["settings"].val["conductor"].val["base"])
    ELSE Ok(DEFAULT_CONDUCTOR_BASE)

\* the property vault_files
vault_files(self) ==
    IF Truthy(self.cli_vault_files) THEN Ok(self.cli_vault_files)
    ELSE IF Truthy(Get(Settings(self), "vault_files"))
    THEN Ok(self._config.val["settings"].val["vault_files"])
    ELSE Ok(None)

\* the property vault_password_file
vault_password_file(self) ==
    IF Attr(self, "cli_vault_password_file").exc # "none"
    THEN Attr(self, "cli_vault_password_file")
    ELSE IF Truthy(Attr(self, "cli_vault_password_file").v)
    THEN Ok(Attr(self, "cli_vault_password_file").v)
    ELSE IF Truthy(Get(Settings(self), "vault_password_file"))
    THEN Ok(self._config.val["settings"].val["vault_password_file"])
    ELSE Ok(None)

(***************************************************************************)
(* The collaborators of the conductor: the document store's serialiser and *)
(* parser, the template evaluator and the role metadata provider           *)
(***************************************************************************)
Digits == <<"0", "1", "2", "3", "4", "5", "6", "7", "8", "9">>
IsNumeral(tok) == \E i \in DOMAIN Digits : Digits[i] = tok
NumeralValue(tok) == (CHOOSE i \in DOMAIN Digits : Digits[i] = tok) - 1

\* yaml.round_trip_dump(value): the text of a value. A text that would read
\* back as a number or as null is quoted.
RECURSIVE Dump(_)
DumpItems(items) == Join([i \in DOMAIN items |-> Dump(items[i])], ", ")
DumpEntries(m) ==
    Join([i \in DOMAIN m.order |-> <<m.order[i], ": ">> \o Dump(m.val[m.order[i]])], ", ")
Dump(v) ==
    CASE v.type = "none" -> <<"null">>
      [] v.type = "int" -> <<Digits[v.n + 1]>>
      [] v.type = "str" ->
            IF v.toks = <<>> THEN <<"''">>
            ELSE IF Len(v.toks) = 1 /\ (IsNumeral(v.toks[1]) \/ v.toks[1] = "null")
            THEN <<"'">> \o v.toks \o <<"'">>
            ELSE v.toks
      [] v.type = "list" -> <<"[">> \o DumpItems(v.items) \o <<"]">>
      [] v.type = "map" -> <<"{">> \o DumpEntries(v) \o <<"}">>

\* the scalar a run of text reads back as
Scalar(toks) ==
    IF toks = <<"null">> \/ toks = <<>> THEN None
    ELSE IF toks = <<"''">> THEN Str(<<>>)
    ELSE IF Len(toks) >= 2 /\ toks[1] = "'" /\ toks[Len(toks)] = "'"
    THEN Str(SubSeq(toks, 2, Len(toks) - 1))
    ELSE IF Len(toks) = 1 /\ IsNumeral(toks[1]) THEN Num(NumeralValue(toks[1]))
    ELSE Str(toks)

\* the end of the scalar that starts at i: the next ", ", "]" or "}"
RECURSIVE ScalarEnd(_, _)
ScalarEnd(toks, i) ==
    IF i > Len(toks) \/ toks[i] \in {", ", "]", "}"} THEN i
    ELSE ScalarEnd(toks, i + 1)

\* yaml.round_trip_load(text), as [v |-> the value read, next |-> where the
\* reading stopped]
RECURSIVE ParseValue(_, _)
RECURSIVE ParseItems(_, _, _)
RECURSIVE ParseEntries(_, _, _)
ParseScalar(toks, i, j) == [v |-> Scalar(SubSeq(toks, i, j - 1)), next |-> j]
ParseValue(toks, i) ==
    IF i <= Len(toks) /\ toks[i] = "[" THEN ParseItems(toks, i + 1, <<>>)
    ELSE IF i <= Len(toks) /\ toks[i] = "{" THEN ParseEntries(toks, i + 1, EmptyMap)
    ELSE ParseScalar(toks, i, ScalarEnd(toks, i))
ParseItemsNext(toks, r, acc) == ParseItems(toks, r.next, Append(acc, r.v))
ParseItems(toks, i, acc) ==
    IF i > Len(toks) THEN [v |-> List(acc), next |-> i]
    ELSE IF toks[i] = "]" THEN [v |-> List(acc), next |-> i + 1]
    ELSE IF toks[i] = ", " THEN ParseItems(toks, i + 1, acc)
    ELSE ParseItemsNext(toks, ParseValue(toks, i), acc)
ParseEntriesNext(toks, key, r, acc) == ParseEntries(toks, r.next, Put(acc, key, r.v))
ParseEntries(toks, i, acc) ==
    IF i > Len(toks) THEN [v |-> acc, next |-> i]
    ELSE IF toks[i] = "}" THEN [v |-> acc, next |-> i + 1]
    ELSE IF toks[i] = ", " THEN ParseEntries(toks, i + 1, acc)
    ELSE ParseEntriesNext(toks, toks[i], ParseValue(toks, i + 2), acc)
Load(toks) == ParseValue(toks, 1).v

\* the variable a template reference names
TemplateVar == ("{{x}}" :> "x") @@ ("{{y}}" :> "y") @@ ("{{z}}" :> "z")
    @@ ("{{a}}" :> "a") @@ ("{{v}}" :> "v") @@ ("{{w}}" :> "w")

\* the text a variable's value is rendered as
Text(v) == IF IsStr(v) THEN v.toks ELSE Dump(v)

\* Templar.template(text) with the available variables `variables`: each
\* reference to an available variable is replaced by the variable's text, a
\* reference to any other variable stays as written
RECURSIVE Template(_, _)
Template(toks, variables) ==
    IF toks = <<>> THEN <<>>
    ELSE LET t == Head(toks)
             rest == Template(Tail(toks), variables)
         IN IF t \in DOMAIN TemplateVar /\ Has(variables, TemplateVar[t])
            THEN Text(variables.val[TemplateVar[t]]) \o rest
            ELSE <<t>> \o rest

\* the roles on disk: each role's meta/container.yml and defaults/main.yml
RoleStore ==
    ("r1" :> [metadata |-> MapOf(<< <<"image", S("r1-img")>>,
                                    <<"command", Str(<<"run-", "{{v}}">>)>> >>),
              defaults |-> MapOf(<< <<"v", S("one")>>, <<"w", S("w1")>> >>)])
    @@ ("r2" :> [metadata |-> MapOf(<< <<"image", S("r2-img")>>,
                                       <<"user", Str(<<"{{w}}">>)>> >>),
                 defaults |-> MapOf(<< <<"v", S("two")>>, <<"a", S("r2-a")>> >>)])
    @@ ("r3" :> [metadata |-> MapOf(<< <<"volumes", List(<<Str(<<"$PWD", ":", "/", "r3">>)>>)>> >>),
                 defaults |-> EmptyMap])

get_metadata_from_role(role_name) == RoleStore[role_name.toks[1]].metadata
get_defaults_from_role(role_name) == RoleStore[role_name.toks[1]].defaults

(***************************************************************************)
(* AnsibleContainerConductorConfig: the conductor-side processor           *)
(***************************************************************************)
\* the body of _process_section's loop for one value, `variables` being the
\* available variables of the templar at that moment
ProcessValue(value, variables) ==
    IF IsStr(value) THEN Str(Template(value.toks, variables))
    ELSE IF value.type \in {"list", "map"} THEN Load(Template(Dump(value), variables))
    ELSE value

\* _process_section(section_value, templar=...) without a callback: the
\* templar's variables are the same for every key
RECURSIVE ProcessSectionFrom(_, _, _)
ProcessSectionFrom(section_value, variables, n) ==
    IF n = 0 THEN EmptyMap
    ELSE Put(ProcessSectionFrom(section_value, variables, n - 1),
             section_value.order[n],
             ProcessValue(section_value.val[section_value.order[n]], variables))
_process_section(section_value, variables) ==
    ProcessSectionFrom(section_value, variables, Len(section_value.order))

\* a faulty callback: the templar's variables are never set
DefaultsCallbackStale(processed) == EmptyMap

\* the callback of _process_defaults: set_available_variables(dict(processed))
DefaultsCallback(processed) == processed

\* re.sub(r'\$(PWD|\{PWD\})', pwd, volume)
RECURSIVE ReSubPwd(_, _)
ReSubPwd(toks, pwd) ==
    IF toks = <<>> THEN <<>>
    ELSE (IF Head(toks) \in {"$PWD", "${PWD}"} THEN pwd ELSE <<Head(toks)>>)
         \o ReSubPwd(Tail(toks), pwd)

\* the loop of _process_services over service_data['volumes'], which assigns
\* into the service's own list
SubstituteVolumes(service_data, pwd) ==
    IF Has(service_data, "volumes")
    THEN Put(service_data, "volumes",
             List([i \in DOMAIN service_data.val["volumes"].items |->
                   Str(ReSubPwd(service_data.val["volumes"].items[i].toks, pwd.toks))]))
    ELSE service_data

\* a faulty copy: the service's defaults are the baseline object itself
DictAlias(heap, ref) == [heap |-> heap, ref |-> ref]

\* dict.copy(): a new object with the same items. The heap holds the
\* objects; the result is the heap and the new object's reference.
DictCopy(heap, ref) == [heap |-> Append(heap, heap[ref]), ref |-> Len(heap) + 1]

\* role_name and role_args of one role_spec
RoleName(role_spec) == IF IsMap(role_spec) THEN role_spec.val["role"] ELSE role_spec
RoleArgs(role_spec) == IF IsMap(role_spec) THEN Del(role_spec, "role") ELSE EmptyMap

\* a faulty loop body: the role's arguments go under its declared defaults
ApplyRoleArgsFirst(acc, role_spec) ==
    [processed |-> Update(acc.processed, get_metadata_from_role(RoleName(role_spec))),
     service_defaults |->
         Update(Update(acc.service_defaults, RoleArgs(role_spec)),
                get_defaults_from_role(RoleName(role_spec)))]

\* the three updates of the loop over the roles, for one role
ApplyRole(acc, role_spec) ==
    [processed |-> Update(acc.processed, get_metadata_from_role(RoleName(role_spec))),
     service_defaults |->
         Update(Update(acc.service_defaults, get_defaults_from_role(RoleName(role_spec))),
                RoleArgs(role_spec))]

RECURSIVE ApplyRoles(_, _, _)
ApplyRoles(acc, roles, n) ==
    IF n = 0 THEN acc ELSE ApplyRole(ApplyRoles(acc, roles, n - 1), roles[n])

\* a faulty merge: the roles' metadata on top of the service's own entry
MergeServiceUnder(processed, service_data) == Update(service_data, processed)

\* processed.update(service_data, relax=True): the service's own entry on top
\* of what the roles' metadata gave
MergeService(processed, service_data) == Update(processed, service_data)

\* service_data.get('roles', [])
RolesOf(service_data) == GetD(service_data, "roles", List(<<>>)).items

\* the end of the loop's body: the merged entry is evaluated against the
\* service's defaults, which are attached to the result
ServiceRendered(data, heap, ref, merged) ==
    [service_data |-> data,
     heap |-> heap,
     merged |-> merged,
     entry |-> Put(_process_section(merged, heap[ref]), "defaults", Ref(ref))]

\* the loop's body after the loop over the roles
ServiceWithRoles(data, copy, acc) ==
    ServiceRendered(data, [copy.heap EXCEPT ![copy.ref] = acc.service_defaults],
                    copy.ref, MergeService(acc.processed, data))

\* the loop's body after `service_defaults = self.defaults.copy()` and the
\* loop over the volumes
ServiceWithCopy(data, copy) ==
    ServiceWithRoles(data, copy,
                     ApplyRoles([processed |-> EmptyMap,
                                 service_defaults |-> copy.heap[copy.ref]],
                                RolesOf(data), Len(RolesOf(data))))

\* the body of _process_services' loop for one service: the service's entry
\* as the loop leaves it, the heap, the merged entry that is evaluated and
\* the entry stored in `services`
ProcessService(service_data, heap, defaults_ref, pwd) ==
    ServiceWithCopy(SubstituteVolumes(service_data, pwd), DictCopy(heap, defaults_ref))

(***************************************************************************)
(* State                                                                   *)
(***************************************************************************)
VARIABLES
    container_yml,     \* <base_path>/container.yml: absent, unparsable, or its document
    environ,           \* os.environ: name -> text
    args,              \* the arguments the loader is constructed with
    self,              \* the loader's attributes, by name
    loader,            \* "new", "ready" (constructed) or "failed" (__init__ raised)
    raised,            \* what the last call on the loader raised, or "none"
    last_env,          \* the env of the last set_env that returned
    calls,             \* the set_env calls made so far
    result,            \* the last property read: [prop, exc, v]
    container_config,  \* the tree the conductor is constructed with (self._config)
    input_tree,        \* the same tree as it was when the conductor was first given it
    templar,           \* the available variables of self._templar
    processed,         \* `processed` of the _process_section call of the defaults pass
    heap,              \* the dict objects holding defaults: reference -> mapping
    conductor,         \* the conductor's attributes, by name
    services,          \* `services` of _process_services
    merged_entries,    \* per service, the merged entry _process_section was given
    pc,                \* where the conductor's __init__ is
    idx,               \* the position of the loop that is running
    runs,              \* the conductors constructed on container_config so far
    previous           \* the attributes of the conductor constructed before this one

loaderVars == <<container_yml, environ, args, self, loader, raised, last_env, calls, result>>
conductorVars == <<container_config, input_tree, templar, processed, heap, conductor,
                   services, merged_entries, pc, idx, runs, previous>>
vars == <<loaderVars, conductorVars>>

\* bounds of the model
MaxCalls == 3
MaxVarFiles == 2
MaxRuns == 2
MaxDefaults == 3
MaxRoles == 2

(***************************************************************************)
(* The loader's operations                                                 *)
(***************************************************************************)
\* the orders in which os.environ.items() can yield the names
Orders(names) ==
    {o \in [1..Cardinality(names) -> names] : \A i, j \in DOMAIN o : i # j => o[i] # o[j]}

RECURSIVE SetToSeq(_)
SetToSeq(set) ==
    IF set = {} THEN <<>>
    ELSE LET x == CHOOSE y \in set : TRUE IN <<x>> \o SetToSeq(set \ {x})

\* the sequences os.environ.items() can yield, up to the place of the names
\* that _get_environment_variables skips (they are put first: where they
\* come changes nothing)
EnvItems(env) ==
    {SetToSeq({n \in DOMAIN env : ~StartsWithAC(n)}) \o o :
        o \in Orders({n \in DOMAIN env : StartsWithAC(n)})}

\* the attributes of the class, before __init__ has set any
ClassAttributes == [_config |-> EmptyMap, base_path |-> None]

\* the assignments of __init__, before its set_env('prod')
InitAttributes(a) ==
    [base_path |-> a.base_path,
     cli_vars_files |-> a.vars_files,
     engine_name |-> a.engine_name,
     config_path |-> a.base_path \o <<"/", "container.yml">>,
     cli_project_name |-> a.project_name,
     cli_vault_files |-> a.vault_files,
     remove_engines |-> engine_list \ (IF IsStr(a.engine_name)
                                        THEN {a.engine_name.toks[1]} ELSE {}),
     _config |-> ClassAttributes._config]

\* what a set_env call leaves: the config is stored only when nothing raised
AfterSetEnv(s, r, env) ==
    /\ self' = IF r.exc = "none" THEN [s EXCEPT !._config = r.v] ELSE s
    /\ raised' = r.exc
    /\ last_env' = IF r.exc = "none" THEN env ELSE last_env

\* BaseAnsibleContainerConfig(base_path, vars_files, engine_name, project_name,
\* vault_files)
Construct ==
    /\ loader = "new"
    /\ \E items \in EnvItems(environ) :
         AfterSetEnv(InitAttributes(args),
                     set_env(InitAttributes(args), "prod", container_yml, environ, items),
                     "prod")
    /\ loader' = IF raised' = "none" THEN "ready" ELSE "failed"
    /\ calls' = 1
    /\ UNCHANGED <<container_yml, environ, args, result, conductorVars>>

\* loader.set_env(env)
SetEnv ==
    /\ loader = "ready"
    /\ calls < MaxCalls
    /\ \E env \in {"dev", "prod", "test"}, items \in EnvItems(environ) :
         AfterSetEnv(self, set_env(self, env, container_yml, environ, items), env)
    /\ calls' = calls + 1
    /\ UNCHANGED <<container_yml, environ, args, loader, result, conductorVars>>

PropertyRead(prop) ==
    CASE prop = "project_name" -> project_name(self)
      [] prop = "conductor_base" -> conductor_base(self)
      [] prop = "vault_files" -> vault_files(self)
      [] prop = "vault_password_file" -> vault_password_file(self)

\* loader.project_name, loader.conductor_base, loader.vault_files,
\* loader.vault_password_file
ReadProperty ==
    /\ loader = "ready"
    /\ \E prop \in {"project_name", "conductor_base", "vault_files", "vault_password_file"} :
         result' = [prop |-> prop, exc |-> PropertyRead(prop).exc, v |-> PropertyRead(prop).v]
    /\ UNCHANGED <<container_yml, environ, args, self, loader, raised, last_env, calls,
                   conductorVars>>

(***************************************************************************)
(* The inputs of the loader: documents, environments and arguments         *)
(***************************************************************************)
Absent == [type |-> "absent"]
Unparsable == [type |-> "unparsable"]

\* the mapping with the given <<key, value>> pairs, those marked Absent left out
MapWith(pairs) == MapOf(SelectSeq(pairs, LAMBDA p : p[2] # Absent))

\* the sequences over `set` of length at most n
RECURSIVE SeqsUpTo(_, _)
SeqsUpTo(set, n) ==
    IF n = 0 THEN {<<>>}
    ELSE LET shorter == SeqsUpTo(set, n - 1) IN
         shorter \cup {Append(q, x) : q \in {r \in shorter : Len(r) = n - 1}, x \in set}

Vol(toks) == Str(toks)
VolPwdData == Vol(<<"$PWD", "/", "data", ":", "/", "data">>)
VolBracePwd == Vol(<<"${PWD}", ":", "/", "src", ":", "ro">>)
VolHome == Vol(<<"~", "/", "x", ":", "/", "x">>)
VolDots == Vol(<<".", "/", "a", "/", "..", "/", "b", ":", "/", "b">>)
VolDest == Vol(<<"/", "data", ":", "$PWD", "/", "mnt">>)
VolHomeVar == Vol(<<"$HOME", "/", "src", ":", "/", "src">>)

EnvBase == ("HOME" :> <<"/", "home", "/", "u">>) @@ ("LANG" :> <<"C">>)
EnvPwd == ("PWD" :> <<"/", "cwd">>) @@ EnvBase
EnvNoHome == ("LANG" :> <<"C">>)
EnvAC == ("AC_A" :> <<"3">>) @@ ("AC_a" :> <<"5">>) @@ ("AC_B" :> <<"7">>)
    @@ ("AC_Debug" :> <<"1">>)
EnvWith(names, base) == [n \in names |-> EnvAC[n]] @@ base

BaseArgs ==
    [base_path |-> <<"/", "proj">>, vars_files |-> None, engine_name |-> S("docker"),
     project_name |-> None, vault_files |-> None]

PlainServices == MapOf(<< <<"web", MapOf(<< <<"image", S("prod-img")>> >>)>> >>)

DocDefaults ==
    {Absent, None,
     MapOf(<< <<"a", Num(1)>> >>),
     MapOf(<< <<"b", S("doc-b")>>, <<"a", Num(1)>>, <<"c", Str(<<"{{a}}", "-c">>)>> >>)}
ACNames == {{}, {"AC_A"}, {"AC_B"}, {"AC_A", "AC_a"}, {"AC_A", "AC_a", "AC_B"}}

\* documents, environments and arguments that differ in the layers of
\* defaults: first in the --var-file list, then in settings.vars_files
DefaultsInputs ==
    {[container_yml |-> MapWith(<< <<"version", S("2")>>, <<"defaults", d>>,
                                   <<"settings", st>>, <<"services", PlainServices>> >>),
      environ |-> EnvWith(ac, EnvBase),
      args |-> [BaseArgs EXCEPT !.vars_files = cli]] :
        d \in DocDefaults,
        st \in {Absent, MapOf(<< <<"vars_files", List(<<S("vars1.yml")>>)>> >>)},
        cli \in {List(q) : q \in SeqsUpTo({S("vars1.yml"), S("vars2.json")}, MaxVarFiles)}
                \cup {List(<<S("vars1.yml"), S("missing.yml")>>)},
        ac \in ACNames}
    \cup
    {[container_yml |-> MapWith(<< <<"version", S("2")>>, <<"defaults", d>>,
                                   <<"settings", st>>, <<"services", PlainServices>> >>),
      environ |-> EnvWith(ac, EnvBase),
      args |-> [BaseArgs EXCEPT !.vars_files = cli]] :
        d \in DocDefaults,
        st \in {Absent, None,
                MapOf(<< <<"vars_files", List(<<S("vars2.json"), S("vars1.yml")>>)>> >>),
                MapOf(<< <<"vars_files", List(<<S("broken.yml")>>)>> >>)},
        cli \in {None, List(<<>>)},
        ac \in ACNames}

\* service entries that differ in dev_overrides, volumes and backend blocks
ServiceEntries ==
    {MapWith(<< <<"image", S("prod-img")>>, <<"volumes", vols>>, <<"dev_overrides", ov>> >>
             \o blocks) :
        vols \in {Absent, List(<<VolPwdData>>), List(<<VolHome, VolDots>>)},
        ov \in {Absent, None, EmptyMap,
                MapOf(<< <<"image", S("dev-img")>> >>),
                MapOf(<< <<"command", S("run-dev")>>, <<"image", S("dev-img")>> >>),
                MapOf(<< <<"volumes", List(<<VolHomeVar>>)>> >>),
                MapOf(<< <<"dev_overrides", MapOf(<< <<"image", S("inner")>> >>)>> >>),
                MapOf(<< <<"k8s", S("dev-k8s")>> >>)},
        blocks \in {<<>>, << <<"docker", S("docker-opts")>> >>,
                    << <<"k8s", S("k8s-opts")>>, <<"openshift", S("os-opts")>> >>}}

MalformedEntries ==
    {None, S("image-name"), EmptyMap, List(<<S("x")>>), List(<<S("volumes")>>), Num(5)}

ServiceMaps ==
    {MapOf(<< <<"web", e>> >>) : e \in ServiceEntries \cup MalformedEntries}
    \cup {MapOf(<< <<"web", e1>>, <<"db", e2>> >>) :
            e1 \in {MapOf(<< <<"image", S("prod-img")>>,
                             <<"dev_overrides", MapOf(<< <<"image", S("dev-img")>> >>)>> >>),
                    List(<<S("x")>>)},
            e2 \in {MapOf(<< <<"image", S("db-img")>>, <<"volumes", List(<<VolBracePwd>>)>>,
                             <<"dev_overrides", MapOf(<< <<"user", S("dev")>> >>)>> >>),
                    MapOf(<< <<"image", S("db-img")>> >>),
                    None}}

ServicesInputs ==
    {[container_yml |-> MapOf(<< <<"services", svcs>> >>),
      environ |-> env,
      args |-> [BaseArgs EXCEPT !.engine_name = engine]] :
        svcs \in ServiceMaps,
        env \in {EnvPwd, EnvNoHome},
        engine \in {S("docker"), None}}

\* documents that differ in what _validate_config looks at
ValidationInputs ==
    {[container_yml |-> y, environ |-> EnvBase, args |-> BaseArgs] :
        y \in {Absent, Unparsable}
              \cup {MapWith(<< <<"version", ver>>, <<"volumes", vols>>, <<"services", svcs>> >>
                            \o extra) :
                      ver \in {Absent, S("1"), S("2"), S("3"), Num(2)},
                      vols \in {Absent, None},
                      svcs \in {Absent, None, EmptyMap, PlainServices,
                                MapOf(<< <<"web", None>> >>)},
                      extra \in {<<>>, << <<"foo", S("x")>> >>, << <<"foo", None>> >>,
                                 << <<"foo", S("x")>>, <<"networks", EmptyMap>> >>}}}

\* arguments and settings that differ in what the properties read
PropertyInputs ==
    {[container_yml |->
          MapOf(<< <<"services", PlainServices>>,
                   <<"settings", MapWith(<< <<"project_name", pn>>, <<"vault_files", vf>>,
                                            <<"vault_password_file", vp>> >> \o misc[2])>> >>),
      environ |-> EnvWith({"AC_Debug"}, EnvBase),
      args |-> [BaseArgs EXCEPT !.base_path = misc[1], !.project_name = cpn,
                                !.vault_files = cvf]] :
        pn \in {Absent, S("doc-project")},
        vf \in {Absent, List(<<S("doc.vault")>>)},
        vp \in {Absent, S("doc.pass")},
        misc \in {<< <<"/", "proj">>, <<>> >>,
                  << <<"/", "srv", "/", "app">>, << <<"conductor_base", S("fedora")>> >> >>,
                  << <<"/", "proj">>,
                     << <<"conductor", MapOf(<< <<"base", S("alpine")>> >>)>> >> >>},
        cpn \in {None, Str(<<>>), S("cli-project")},
        cvf \in {None, List(<<S("cli.vault")>>)}}

LoaderInputs == DefaultsInputs \cup ServicesInputs \cup ValidationInputs \cup PropertyInputs

\* the conductor has not been constructed
ConductorIdle ==
    /\ container_config = None
    /\ input_tree = None
    /\ templar = EmptyMap
    /\ processed = EmptyMap
    /\ heap = <<>>
    /\ conductor = <<>>
    /\ services = EmptyMap
    /\ merged_entries = <<>>
    /\ pc = "off"
    /\ idx = 0
    /\ runs = 0
    /\ previous = <<>>

LoaderNew ==
    /\ self = ClassAttributes
    /\ loader = "new"
    /\ raised = "none"
    /\ last_env = "none"
    /\ calls = 0
    /\ result = [prop |-> "none", exc |-> "none", v |-> None]

InitLoader ==
    /\ \E in \in LoaderInputs :
         /\ container_yml = in.container_yml
         /\ environ = in.environ
         /\ args = in.args
    /\ LoaderNew
    /\ ConductorIdle

NextLoader == Construct \/ SetEnv \/ ReadProperty

SpecLoader == InitLoader /\ [][NextLoader]_vars

(***************************************************************************)
(* The conductor's operations: AnsibleContainerConductorConfig.__init__,   *)
(* one step for each pass of a loop                                        *)
(***************************************************************************)
\* a value with every reference replaced by the mapping it refers to
Deref(v, h) ==
    IF IsMap(v)
    THEN [v EXCEPT !.val = [k \in DOMAIN v.val |->
                              IF v.val[k].type = "ref" THEN h[v.val[k].ref] ELSE v.val[k]]]
    ELSE v

\* what the conductor exposes: its attributes, the references followed
Resolved(c, h) ==
    [k \in DOMAIN c |->
       IF c[k].type = "ref" THEN h[c[k].ref]
       ELSE IF k = "services"
       THEN [c[k] EXCEPT !.val = [n \in DOMAIN c[k].val |-> Deref(c[k].val[n], h)]]
       ELSE c[k]]

\* the first lines of __init__: self._config is the caller's tree itself, and
\* the templar starts with no variables
StartConductor ==
    /\ pc \in {"idle", "done"}
    /\ runs < MaxRuns
    /\ runs' = runs + 1
    /\ previous' = Resolved(conductor, heap)
    /\ templar' = EmptyMap
    /\ processed' = EmptyMap
    /\ conductor' = <<>>
    /\ heap' = <<>>
    /\ services' = EmptyMap
    /\ merged_entries' = <<>>
    /\ idx' = 1
    /\ pc' = "defaults"
    /\ UNCHANGED <<loaderVars, container_config, input_tree>>

DefaultsSection == GetD(container_config, "defaults", EmptyMap)

\* _process_defaults: one pass of _process_section's loop, and its callback
DefaultsKey ==
    /\ pc = "defaults"
    /\ idx <= Len(DefaultsSection.order)
    /\ processed' = Put(processed, DefaultsSection.order[idx],
                        ProcessValue(DefaultsSection.val[DefaultsSection.order[idx]], templar))
    /\ templar' = DefaultsCallback(processed')
    /\ idx' = idx + 1
    /\ UNCHANGED <<loaderVars, container_config, input_tree, heap, conductor, services,
                   merged_entries, pc, runs, previous>>

\* _process_defaults: the loop is over, self.defaults is what it built
DefaultsDone ==
    /\ pc = "defaults"
    /\ idx > Len(DefaultsSection.order)
    /\ heap' = Append(heap, processed)
    /\ conductor' = ("defaults" :> Ref(Len(heap) + 1)) @@ conductor
    /\ pc' = "sections"
    /\ UNCHANGED <<loaderVars, container_config, input_tree, templar, processed, services,
                   merged_entries, idx, runs, previous>>

\* _process_top_level_sections
TopLevelSections ==
    /\ pc = "sections"
    /\ container_config' =
           Put(container_config, "settings", GetD(container_config, "settings", EmptyMap))
    /\ conductor' =
           [section \in {"volumes", "registries", "secrets"} |->
              _process_section(GetD(container_config, section, EmptyMap), templar)]
           @@ conductor
    /\ services' = EmptyMap
    /\ idx' = 1
    /\ pc' = "services"
    /\ UNCHANGED <<loaderVars, input_tree, templar, processed, heap, merged_entries, runs,
                   previous>>

ServicesSection == GetD(container_config, "services", EmptyMap)

\* what one pass of _process_services' loop leaves
AfterService(service, r) ==
    /\ container_config' =
           Put(container_config, "services", Put(ServicesSection, service, r.service_data))
    /\ heap' = r.heap
    /\ services' = Put(services, service, r.entry)
    /\ merged_entries' = (service :> r.merged) @@ merged_entries

\* _process_services: one pass of the loop
ServiceStep ==
    /\ pc = "services"
    /\ idx <= Len(ServicesSection.order)
    /\ AfterService(ServicesSection.order[idx],
                    ProcessService(ServicesSection.val[ServicesSection.order[idx]], heap,
                                   conductor["defaults"].ref,
                                   Get(container_config.val["settings"], "pwd")))
    /\ idx' = idx + 1
    /\ UNCHANGED <<loaderVars, input_tree, templar, processed, conductor, pc, runs, previous>>

\* _process_services: the loop is over, self.services is what it built
ServicesDone ==
    /\ pc = "services"
    /\ idx > Len(ServicesSection.order)
    /\ conductor' = ("services" :> services) @@ conductor
    /\ pc' = "done"
    /\ UNCHANGED <<loaderVars, container_config, input_tree, templar, processed, heap,
                   services, merged_entries, idx, runs, previous>>

(***************************************************************************)
(* The inputs of the conductor: resolved trees                             *)
(***************************************************************************)
\* the sequences of Seq(set) without a repeated element
Distinct(seqs) == {q \in seqs : \A i, j \in DOMAIN q : i # j => q[i] # q[j]}

\* a defaults section with the keys `keys`, in that order
DefaultValues(x) ==
    ("x" :> x)
    @@ ("y" :> Str(<<"{{x}}", "-2">>))
    @@ ("z" :> Str(<<"{{y}}", "+", "{{w}}">>))
    @@ ("w" :> List(<<Str(<<"{{x}}">>), S("b")>>))
DefaultsOf(keys, x) == MapOf([i \in DOMAIN keys |-> <<keys[i], DefaultValues(x)[keys[i]]>>])

DefaultsSections ==
    {DefaultsOf(keys, x) : keys \in Distinct(SeqsUpTo({"x", "y", "z", "w"}, MaxDefaults)),
                           x \in {S("1"), Num(1)}}

RoleSpecs ==
    {S("r1"), S("r2"), S("r3"),
     MapOf(<< <<"role", S("r2")>>, <<"v", S("nine")>> >>),
     MapOf(<< <<"role", S("r1")>>, <<"w", Str(<<"{{x}}">>)>>, <<"image", S("arg-img")>> >>)}

ResolvedTree(defaults, svcs) ==
    MapWith(<< <<"version", S("2")>>,
               <<"settings", MapOf(<< <<"pwd", Str(<<"/", "proj">>)>> >>)>>,
               <<"defaults", defaults>>,
               <<"services", svcs>>,
               <<"registries", MapOf(<< <<"hub", MapOf(<< <<"url", Str(<<"{{x}}", ".io">>)>> >>)>>,
                                        <<"port", Num(5)>> >>)>> >>)

\* trees that differ in the defaults section
DefaultsTrees ==
    {ResolvedTree(d, MapOf(<< <<"web", MapOf(<< <<"roles", List(<<S("r1")>>)>>,
                                                <<"image", Str(<<"{{x}}", "-img">>)>> >>)>> >>)) :
        d \in DefaultsSections \cup {Absent}}

\* trees that differ in the services: their roles and their own keys
ServiceTrees ==
    {ResolvedTree(d, MapWith(<< <<"web", MapOf(<< <<"roles", List(roles)>> >> \o own)>>,
                                <<"db", db>> >>)) :
        d \in {MapOf(<< <<"x", S("1")>> >>),
               MapOf(<< <<"v", S("base-v")>>, <<"a", Num(1)>> >>)},
        roles \in SeqsUpTo(RoleSpecs, MaxRoles),
        own \in {<<>>,
                 << <<"image", S("own-img")>>, <<"command", Str(<<"{{v}}", "-", "{{x}}">>)>> >>,
                 << <<"volumes", List(<<VolPwdData, VolDest>>)>>, <<"user", Str(<<"{{a}}">>)>> >>},
        db \in {Absent,
                MapOf(<< <<"image", Str(<<"db-", "{{v}}">>)>>, <<"command", Str(<<"{{w}}">>)>> >>),
                MapOf(<< <<"roles", List(<<S("r2")>>)>>,
                         <<"volumes", List(<<VolBracePwd>>)>> >>)}}

ConductorInputs == DefaultsTrees \cup ServiceTrees

InitConductor ==
    /\ container_yml = Absent
    /\ environ = EnvBase
    /\ args = BaseArgs
    /\ LoaderNew
    /\ \E tree \in ConductorInputs :
         /\ container_config = tree
         /\ input_tree = tree
    /\ templar = EmptyMap
    /\ processed = EmptyMap
    /\ heap = <<>>
    /\ conductor = <<>>
    /\ services = EmptyMap
    /\ merged_entries = <<>>
    /\ pc = "idle"
    /\ idx = 0
    /\ runs = 0
    /\ previous = <<>>

NextConductor ==
    \/ StartConductor
    \/ DefaultsKey
    \/ DefaultsDone
    \/ TopLevelSections
    \/ ServiceStep
    \/ ServicesDone

SpecConductor == InitConductor /\ [][NextConductor]_vars

(***************************************************************************)
(* The pipeline: the loader's config is handed to the conductor            *)
(***************************************************************************)
\* the config the loader holds becomes the conductor's container_config
HandOff ==
    /\ loader = "ready"
    /\ pc = "off"
    /\ container_config' = self._config
    /\ input_tree' = self._config
    /\ pc' = "idle"
    /\ UNCHANGED <<loaderVars, templar, processed, heap, conductor, services,
                   merged_entries, idx, runs, previous>>

PipelineInputs ==
    {[container_yml |->
          MapWith(<< <<"settings", st>>,
                     <<"defaults", MapOf(<< <<"x", S("1")>> >>)>>,
                     <<"services",
                       MapOf(<< <<"web", MapOf(<< <<"image", Str(<<"{{x}}", "-img">>)>>,
                                                  <<"volumes", List(vols)>> >>)>>,
                                <<"db", MapOf(<< <<"roles", List(<<S("r3")>>)>> >>)>> >>)>> >>),
      environ |-> env,
      args |-> [BaseArgs EXCEPT !.base_path = bp]] :
        st \in {Absent, None, MapOf(<< <<"pwd", Str(<<"/", "elsewhere">>)>> >>)},
        vols \in {<<VolPwdData>>, <<VolBracePwd, VolDest>>, <<VolDest>>,
                  <<Vol(<<"/", "data", ":", "/", "data">>), VolPwdData>>},
        env \in {EnvBase, EnvPwd, ("PWD" :> <<"/", "proj">>) @@ EnvBase},
        bp \in {<<"/", "proj">>, <<"/", "srv", "/", "app">>}}

InitPipeline ==
    /\ \E in \in PipelineInputs :
         /\ container_yml = in.container_yml
         /\ environ = in.environ
         /\ args = in.args
    /\ LoaderNew
    /\ ConductorIdle

NextPipeline ==
    \/ Construct
    \/ HandOff
    \/ StartConductor
    \/ DefaultsKey
    \/ DefaultsDone
    \/ TopLevelSections
    \/ ServiceStep
    \/ ServicesDone

SpecPipeline == InitPipeline /\ [][NextPipeline]_vars

(***************************************************************************)
(* Properties of the loader                                                *)
(***************************************************************************)
\* the three layers of defaults, read off the inputs of the loader
C1_Doc ==
    IF IsMap(container_yml) /\ Has(container_yml, "defaults")
       /\ IsMap(container_yml.val["defaults"])
    THEN container_yml.val["defaults"].val ELSE <<>>
C1_Settings ==
    IF IsMap(container_yml) /\ IsMap(Get(container_yml, "settings"))
    THEN container_yml.val["settings"] ELSE EmptyMap
\* the effective var-file list: the CLI list when it names a file, else
\* settings.vars_files
C1_Files ==
    IF Truthy(args.vars_files) THEN args.vars_files.items
    ELSE IF Truthy(Get(C1_Settings, "vars_files")) THEN C1_Settings.val["vars_files"].items
    ELSE <<>>
C1_File(i) == VarFileStore[C1_Files[i].toks[1]].val
C1_Defining(k) == {i \in DOMAIN C1_Files : k \in DOMAIN C1_File(i)}
C1_EnvNames(k) == {n \in DOMAIN environ : StartsWithAC(n) /\ StripLower[n] = k}
C1_Keys ==
    DOMAIN C1_Doc
    \cup UNION {DOMAIN C1_File(i) : i \in DOMAIN C1_Files}
    \cup {StripLower[n] : n \in {m \in DOMAIN environ : StartsWithAC(m)}}
\* the values the claim allows for k (several only when two variables of the
\* environment give the same key)
C1_Expected(k) ==
    IF C1_EnvNames(k) # {} THEN {Str(environ[n]) : n \in C1_EnvNames(k)}
    ELSE IF C1_Defining(k) # {}
    THEN {C1_File(CHOOSE i \in C1_Defining(k) : \A j \in C1_Defining(k) : j <= i)[k]}
    ELSE {C1_Doc[k]}

\* C1: after a successful set_env, every key of the resolved defaults has the
\* value of its AC_ environment variable if there is one, else the value of
\* the last file of the effective var-file list that defines it, else the
\* document's value; the keys are those of the three layers and no other.
C1_DefaultsPrecedence ==
    loader = "ready" =>
        /\ DOMAIN self._config.val["defaults"].val = C1_Keys
        /\ \A k \in C1_Keys : self._config.val["defaults"].val[k] \in C1_Expected(k)

\* the example of the specification: {a: 1}, a file {a: 2, b: 2} and AC_A=3
C1_Witness ==
    /\ loader = "ready"
    /\ C1_Doc = ("a" :> Num(1))
    /\ C1_Files = <<S("vars1.yml")>>
    /\ {n \in DOMAIN environ : StartsWithAC(n)} = {"AC_A"}
    /\ self._config.val["defaults"].val = ("a" :> S("3")) @@ ("b" :> Num(2))

\* the service entries of the document that are mappings
C3_Entries ==
    IF IsMap(container_yml) /\ IsMap(Get(container_yml, "services"))
    THEN {n \in DOMAIN container_yml.val["services"].val :
              IsMap(container_yml.val["services"].val[n])}
    ELSE {}
C3_Own(n) == container_yml.val["services"].val[n].val
C3_Overrides(n) ==
    IF "dev_overrides" \in DOMAIN C3_Own(n) /\ IsMap(C3_Own(n)["dev_overrides"])
    THEN C3_Own(n)["dev_overrides"].val ELSE <<>>
C3_Held(n) == self._config.val["services"].val[n].val
\* the entry with the overrides of the mode on top of its own keys
C3_Selected(n, mode) ==
    LET own == [k \in DOMAIN C3_Own(n) \ {"dev_overrides"} |-> C3_Own(n)[k]]
    IN IF mode = "dev" THEN C3_Overrides(n) @@ own ELSE own
\* a value as the loader holds it: the source part of a volume is expanded
C3_AsHeld(k, v) ==
    IF k = "volumes" THEN List([i \in DOMAIN v.items |-> ExpandVolume(v.items[i], environ)])
    ELSE v

\* C3 as stated: the held entry of a service has, for every key, the override
\* value (dev, for the keys of dev_overrides) or the service's own value, and
\* never has the key dev_overrides.
C3_AsStated ==
    loader = "ready" =>
        \A n \in C3_Entries :
            /\ "dev_overrides" \notin DOMAIN C3_Held(n)
            /\ \A k \in DOMAIN C3_Selected(n, last_env) :
                   /\ k \in DOMAIN C3_Held(n)
                   /\ C3_Held(n)[k] = C3_Selected(n, last_env)[k]

\* C3, amended: after any sequence of successful set_env calls the held entry
\* of a service is a function of the document and the mode of the last call
\* only: its keys are those of the entry without dev_overrides, with the keys
\* of dev_overrides on top in dev mode, less the keys naming a backend other
\* than the selected one; each has the override value (dev) or the own value,
\* a volumes list with the source part of each item expanded and normalised.
C3_LastModeDecides ==
    loader = "ready" =>
        \A n \in C3_Entries :
            /\ DOMAIN C3_Held(n) = DOMAIN C3_Selected(n, last_env) \ self.remove_engines
            /\ \A k \in DOMAIN C3_Held(n) :
                   C3_Held(n)[k] = C3_AsHeld(k, C3_Selected(n, last_env)[k])

\* a dev call after the constructor's prod call, an override and an own key
C3_Witness ==
    /\ loader = "ready"
    /\ calls = MaxCalls
    /\ last_env = "dev"
    /\ "web" \in C3_Entries
    /\ C3_Overrides("web") = ("image" :> S("dev-img"))
    /\ "volumes" \in DOMAIN C3_Own("web")
    /\ C3_Held("web")["image"] = S("dev-img")

\* the whitelist as the claim gives it, and the keys of the document outside it
C4_Whitelist ==
    {"version", "settings", "volumes", "services", "defaults", "registries", "secrets"}
C4_Offending ==
    IF IsMap(container_yml) THEN DOMAIN container_yml.val \ C4_Whitelist ELSE {}
\* a service entry no rule of the loader rejects
C4_EntryFine(e) ==
    /\ IsMap(e)
    /\ e.order # <<>>
    /\ Has(e, "dev_overrides") => IsMap(e.val["dev_overrides"])
    /\ Has(e, "volumes") => VolumesAreTexts(e)
\* the document violates no rule but the whitelist
C4_NothingElse ==
    /\ IsMap(container_yml)
    /\ IsMap(Get(container_yml, "services"))
    /\ \A n \in DOMAIN container_yml.val["services"].val :
           C4_EntryFine(container_yml.val["services"].val[n])
    /\ Has(container_yml, "version") => container_yml.val["version"] \in {S("1"), S("2")}
    /\ \A i \in DOMAIN C1_Files :
           /\ C1_Files[i].toks[1] \in DOMAIN VarFileStore
           /\ IsMap(VarFileStore[C1_Files[i].toks[1]])
\* loading the document without the key k, in either mode
C4_LoadsWithout(k) ==
    \A env \in {"dev", "prod"}, items \in EnvItems(environ) :
        set_env(InitAttributes(args), env, Del(container_yml, k), environ, items).exc = "none"

\* C4: the load the constructor makes raises NotInitialized when the file is
\* absent, and ConfigError when the document has no non-null services key or
\* has a top-level key outside the whitelist; a document whose only violation
\* is one key outside the whitelist loads once that key is removed.
C4_Validation ==
    (loader \in {"ready", "failed"} /\ calls = 1) =>
        /\ container_yml = Absent => raised = "NotInitialized"
        /\ (IsMap(container_yml)
            /\ (Get(container_yml, "services") = None \/ C4_Offending # {}))
               => raised = "ConfigError"
        /\ (Cardinality(C4_Offending) = 1 /\ C4_NothingElse)
               => \A k \in C4_Offending : C4_LoadsWithout(k)

\* a document with the one offending key foo was refused, and loads without it
C4_Witness ==
    /\ loader = "failed"
    /\ raised = "ConfigError"
    /\ C4_Offending = {"foo"}
    /\ C4_NothingElse
    /\ C4_LoadsWithout("foo")

\* what the claim gives for each property: the CLI value, else the settings'
\* value, else the fallback
C8_Setting(key) ==
    IF IsMap(Get(self._config, "settings")) THEN Get(self._config.val["settings"], key)
    ELSE None
C8_Expected(prop) ==
    CASE prop = "project_name" ->
             IF Truthy(args.project_name) THEN args.project_name
             ELSE IF Truthy(C8_Setting("project_name")) THEN C8_Setting("project_name")
             ELSE Str(<<args.base_path[Len(args.base_path)]>>)
      [] prop = "vault_files" ->
             IF Truthy(args.vault_files) THEN args.vault_files
             ELSE IF Truthy(C8_Setting("vault_files")) THEN C8_Setting("vault_files")
             ELSE None
      [] prop = "vault_password_file" ->
             IF Truthy(C8_Setting("vault_password_file"))
             THEN C8_Setting("vault_password_file")
             ELSE None

\* C8 as stated: a read of project_name, vault_files or vault_password_file on
\* a constructed loader returns the CLI value, else the settings' value, else
\* the fallback, and never fails.
C8_AsStated ==
    (loader = "ready" /\ result.prop \in {"project_name", "vault_files", "vault_password_file"})
        => /\ result.exc = "none"
           /\ result.v = C8_Expected(result.prop)

(***************************************************************************)
(* Properties of the conductor                                             *)
(***************************************************************************)
\* the defaults section of the tree, and how many of its keys the defaults
\* pass has evaluated
C2_Section == IF Has(input_tree, "defaults") THEN input_tree.val["defaults"] ELSE EmptyMap
C2_Evaluated ==
    IF pc = "defaults" THEN idx - 1
    ELSE IF pc \in {"off", "idle"} THEN 0
    ELSE Len(C2_Section.order)
\* the context holding exactly the evaluated values of the defaults 1..j
C2_Context(j) ==
    [type |-> "map",
     order |-> SubSeq(C2_Section.order, 1, j),
     val |-> [k \in {C2_Section.order[i] : i \in 1..j} |-> processed.val[k]]]
C2_Before(a, b) ==
    \E i, j \in DOMAIN C2_Section.order :
        i < j /\ C2_Section.order[i] = a /\ C2_Section.order[j] = b

\* C2: the defaults pass evaluates the defaults in document order, the i-th
\* against the context holding exactly the evaluated defaults 1..i-1: y,
\* written "{{x}}-2", is "1-2" when x comes before it and is left as written
\* when x comes later; the templar's context is the evaluated map so far, and
\* the complete evaluated map after the last key.
C2_IncrementalContext ==
    /\ processed.order = SubSeq(C2_Section.order, 1, C2_Evaluated)
    /\ \A i \in 1..C2_Evaluated :
           processed.val[C2_Section.order[i]]
               = ProcessValue(C2_Section.val[C2_Section.order[i]], C2_Context(i - 1))
    /\ templar.val = processed.val
    /\ "y" \in DOMAIN processed.val =>
           processed.val["y"] = IF C2_Before("x", "y") THEN Str(<<"1", "-2">>)
                                ELSE Str(<<"{{x}}", "-2">>)

\* w refers to x, which comes later, and y refers to x, which comes earlier
C2_Witness ==
    /\ pc = "done"
    /\ C2_Section.order = <<"w", "x", "y">>
    /\ processed.val["w"] = List(<<Str(<<"{{x}}">>), S("b")>>)
    /\ processed.val["y"] = Str(<<"1", "-2">>)
    /\ templar.val = processed.val

\* the sources of a service's defaults, in the order the claim gives: the
\* baseline evaluated defaults, then each role's declared defaults and its
\* invocation arguments
C5_Roles(s) == RolesOf(input_tree.val["services"].val[s])
C5_RoleName(r) == IF IsMap(r) THEN r.val["role"].toks[1] ELSE r.toks[1]
C5_RoleArgs(r) == IF IsMap(r) THEN [k \in DOMAIN r.val \ {"role"} |-> r.val[k]] ELSE <<>>
C5_Sources(s) ==
    <<processed.val>>
    \o Flatten([i \in DOMAIN C5_Roles(s) |->
                  <<RoleStore[C5_RoleName(C5_Roles(s)[i])].defaults.val,
                    C5_RoleArgs(C5_Roles(s)[i])>>])
\* the last of the sources that defines k gives its value
C5_LastWins(sources) ==
    [k \in UNION {DOMAIN sources[i] : i \in DOMAIN sources} |->
       sources[CHOOSE i \in DOMAIN sources :
                   /\ k \in DOMAIN sources[i]
                   /\ \A j \in DOMAIN sources : k \in DOMAIN sources[j] => j <= i][k]]
C5_Attached(s) == heap[services.val[s].val["defaults"].ref].val

\* C5: the defaults attached to a service are the baseline evaluated defaults
\* overwritten, role by role in list order, by the role's declared defaults
\* and then by the role's invocation arguments.
C5_ServiceDefaultsLayering ==
    \A s \in DOMAIN services.val : C5_Attached(s) = C5_LastWins(C5_Sources(s))

\* r1 declares v = one, r2 declares v = two and is invoked with v = nine
C5_Witness ==
    /\ pc = "done"
    /\ "web" \in DOMAIN services.val
    /\ C5_Roles("web") = <<S("r1"), MapOf(<< <<"role", S("r2")>>, <<"v", S("nine")>> >>)>>
    /\ "v" \in DOMAIN processed.val
    /\ C5_Attached("web")["v"] = S("nine")
    /\ C5_Attached("web")["w"] = S("w1")

\* the service's own entry as the tree gave it, its volumes as the volume
\* pass of the same service leaves them
C6_Own(s) == input_tree.val["services"].val[s].val
C6_OwnValue(s, k) ==
    IF k = "volumes"
    THEN List([i \in DOMAIN C6_Own(s)[k].items |->
                 Str(ReSubPwd(C6_Own(s)[k].items[i].toks,
                              input_tree.val["settings"].val["pwd"].toks))])
    ELSE C6_Own(s)[k]
C6_Metadata(s) ==
    [i \in DOMAIN C5_Roles(s) |-> RoleStore[C5_RoleName(C5_Roles(s)[i])].metadata.val]

\* C6: the merged entry that is evaluated has, for every key of the service's
\* own entry, the service's own value whatever the roles' metadata declare,
\* and for every other key the value of the last role in list order whose
\* metadata declares it.
C6_OwnKeysWin ==
    \A s \in DOMAIN merged_entries :
        /\ DOMAIN merged_entries[s].val
               = DOMAIN C6_Own(s) \cup DOMAIN C5_LastWins(C6_Metadata(s))
        /\ \A k \in DOMAIN C6_Own(s) : merged_entries[s].val[k] = C6_OwnValue(s, k)
        /\ \A k \in DOMAIN merged_entries[s].val \ DOMAIN C6_Own(s) :
               merged_entries[s].val[k] = C5_LastWins(C6_Metadata(s))[k]

\* user is declared by the service and by r2, image by r1 and r2 only
C6_Witness ==
    /\ pc = "done"
    /\ "web" \in DOMAIN merged_entries
    /\ C5_Roles("web") = <<S("r1"), S("r2")>>
    /\ "user" \in DOMAIN C6_Own("web")
    /\ merged_entries["web"].val["user"] = Str(<<"{{a}}">>)
    /\ merged_entries["web"].val["image"] = S("r2-img")
    /\ merged_entries["web"].val["command"] = Str(<<"run-", "{{v}}">>)

\* C9: during the per-service pass the baseline defaults stay what the
\* defaults pass made them; every attached default of a service has a value
\* given by the baseline or by that service's own roles, and the service's
\* evaluated values are those its merged entry has in the context made of the
\* baseline and its own roles only.
C9_NoLeakage ==
    /\ pc \in {"sections", "services", "done"} => heap[conductor["defaults"].ref] = processed
    /\ \A s \in DOMAIN services.val :
           /\ \A k \in DOMAIN C5_Attached(s) :
                  \E i \in DOMAIN C5_Sources(s) :
                      /\ k \in DOMAIN C5_Sources(s)[i]
                      /\ C5_Attached(s)[k] = C5_Sources(s)[i][k]
           /\ Del(services.val[s], "defaults")
                  = _process_section(merged_entries[s],
                                     [type |-> "map", order |-> <<>>,
                                      val |-> C5_LastWins(C5_Sources(s))])

\* web's role r1 declares w; db, processed after web, has no role and refers
\* to w
C9_Witness ==
    /\ pc = "done"
    /\ services.order = <<"web", "db">>
    /\ C5_Roles("web") # <<>>
    /\ C5_Roles("db") = <<>>
    /\ C5_Attached("web")["w"] = S("w1")
    /\ "w" \notin DOMAIN C5_Attached("db")
    /\ services.val["db"].val["command"] = Str(<<"{{w}}">>)
    /\ heap[conductor["defaults"].ref] = processed

\* C10 as stated: when the three passes have finished the tree the conductor
\* was given is unchanged, and a second run on it gives the same result as the
\* first.
C10_AsStated ==
    pc = "done" =>
        /\ container_config = input_tree
        /\ runs > 1 => Resolved(conductor, heap) = previous

(***************************************************************************)
(* Properties of the pipeline                                              *)
(***************************************************************************)
\* the services of the document that have volumes
C7_WithVolumes ==
    {n \in DOMAIN container_yml.val["services"].val :
         Has(container_yml.val["services"].val[n], "volumes")}
C7_Written(n) == container_yml.val["services"].val[n].val["volumes"].items
C7_Processed(n) == conductor["services"].val[n].val["volumes"].items
\* the text with every $PWD or ${PWD} token replaced by `value`
C7_Subst(toks, value) ==
    Flatten([i \in DOMAIN toks |->
               IF toks[i] \in {"$PWD", "${PWD}"} THEN value ELSE <<toks[i]>>])
\* the source part of a volume as the pipeline leaves it
C7_Source(src) ==
    IF "PWD" \in DOMAIN environ THEN normpath(C7_Subst(src, environ["PWD"]))
    ELSE C7_Subst(normpath(src), args.base_path)
C7_Resolved(volume) ==
    LET pieces == Split(volume.toks, ":") IN
    Str(Join(<<C7_Source(pieces[1])>>
             \o [j \in 1..(Len(pieces) - 1) |-> C7_Subst(pieces[j + 1], args.base_path)],
             ":"))

====
